---- MODULE Spec2Model ----
(***************************************************************************)
(* Model of main.py: the module-level start-up (credential validation,     *)
(* construction of newsletter_agent with its fallback) and the function    *)
(* NewsletterGenerator(topic, search_limit, time_range).                   *)
(*                                                                         *)
(* Text is modelled as a sequence of string fragments: concatenating the   *)
(* fragments in order gives the Python string.  Numbers that Python        *)
(* formats into text (search_limit, the strftime fields) are converted to  *)
(* sequences of one-character digit fragments, so equal fragment           *)
(* sequences are equal byte strings.                                       *)
(***************************************************************************)
EXTENDS Integers, Sequences, FiniteSets, TLC

VARIABLES
    FIRECRAWL_API_KEY,  \* os.getenv("FIRECRAWL_API_KEY")
    GOOGLE_API_KEY,     \* os.getenv("GOOGLE_API_KEY")
    pc,                 \* position of the process
    uncaught,           \* the exception that ended the process, or None
    stdout,             \* the lines print() wrote during start-up
    newsletter_agent,   \* the module-level agent handle
    constructed,        \* per construction site: how often Agent(...) was called
    now,                \* the local clock datetime.now() reads
    ticks,              \* how often the clock advanced
    call,               \* arguments of the current / last call, or None
    today,              \* the clock reading the current / last call took
    enhanced_topic,     \* the prompt the current / last call passed to run
    runs,               \* how often run was invoked in the current / last call
    ranAgent,           \* the agent whose run was invoked, or None
    runOutcome,         \* what run did: returned a value or raised
    result,             \* what the last call gave its caller
    logged,             \* logger lines of the current / last call
    prevSent            \* arguments, clock reading and prompt of the call before

vars == <<FIRECRAWL_API_KEY, GOOGLE_API_KEY, pc, uncaught, stdout,
          newsletter_agent, constructed, now, ticks, call, today,
          enhanced_topic, runs, ranAgent, runOutcome, result, logged, prevSent>>

startupVars == <<FIRECRAWL_API_KEY, GOOGLE_API_KEY, uncaught, stdout,
                 newsletter_agent, constructed>>

callVars == <<call, today, enhanced_topic, runs, ranAgent, runOutcome,
              result, logged, prevSent>>

----------------------------------------------------------------------------
(* Bounds of the model *)

MaxTicks == 1
MaxLimit == 12

(* Python's None *)
None == [none |-> TRUE]

----------------------------------------------------------------------------
(* Exceptions: a value is [type, msg]; the class hierarchy is Python's.    *)

Bases(cls) ==
    CASE cls = "UnicodeDecodeError" -> {"UnicodeDecodeError", "ValueError", "Exception", "BaseException"}
      [] cls = "ValueError"         -> {"ValueError", "Exception", "BaseException"}
      [] cls = "ImportError"        -> {"ImportError", "Exception", "BaseException"}
      [] cls = "RuntimeError"       -> {"RuntimeError", "Exception", "BaseException"}
      [] cls = "ConnectionError"    -> {"ConnectionError", "OSError", "Exception", "BaseException"}
      [] cls = "PermissionError"    -> {"PermissionError", "OSError", "Exception", "BaseException"}
      [] cls = "KeyboardInterrupt"  -> {"KeyboardInterrupt", "BaseException"}
      [] OTHER                      -> {cls, "BaseException"}

IsInstance(exc, cls) == cls \in Bases(exc.type)

(* msg is the text str(exc) gives; cause is __cause__ *)
Exc(type, msg) == [type |-> type, msg |-> msg, cause |-> None]

----------------------------------------------------------------------------
(* Text: str() / f-string formatting of an int, zero padding of strftime   *)

Digit(d) == <<"0", "1", "2", "3", "4", "5", "6", "7", "8", "9">>[d + 1]

RECURSIVE Str(_)
Str(n) == IF n < 10 THEN <<Digit(n)>> ELSE Str(n \div 10) \o <<Digit(n % 10)>>

RECURSIVE ZeroPad(_, _)
ZeroPad(text, width) == IF Len(text) >= width THEN text ELSE ZeroPad(<<"0">> \o text, width)

Contains(text, fragment) == \E i \in 1..Len(text) : text[i] = fragment

(* The reading of a decimal numeral, int(text); -1 when text is no numeral *)
DigitValue(c) ==
    IF \E d \in 0..9 : Digit(d) = c THEN CHOOSE d \in 0..9 : Digit(d) = c ELSE -1

RECURSIVE ParseInt(_)
ParseInt(text) ==
    IF Len(text) = 0 \/ DigitValue(text[Len(text)]) < 0 THEN -1
    ELSE IF Len(text) = 1 THEN DigitValue(text[1])
    ELSE LET hi == ParseInt(SubSeq(text, 1, Len(text) - 1))
         IN  IF hi < 0 THEN -1 ELSE 10 * hi + DigitValue(text[Len(text)])

----------------------------------------------------------------------------
(* datetime: a reading is [day, hour, minute], day counted from            *)
(* 2023-01-01 = 0.  timedelta subtraction and strftime follow the          *)
(* proleptic Gregorian calendar as datetime does.                          *)

IsLeap(y) == (y % 4 = 0 /\ y % 100 # 0) \/ y % 400 = 0

DaysInYear(y) == IF IsLeap(y) THEN 366 ELSE 365

DaysInMonth(y, m) ==
    IF m = 2 THEN (IF IsLeap(y) THEN 29 ELSE 28)
    ELSE IF m \in {4, 6, 9, 11} THEN 30 ELSE 31

RECURSIVE DateFrom(_, _, _)
DateFrom(y, m, d) ==
    IF m = 1 /\ d >= DaysInYear(y) THEN DateFrom(y + 1, 1, d - DaysInYear(y))
    ELSE IF d >= DaysInMonth(y, m) THEN DateFrom(y, m + 1, d - DaysInMonth(y, m))
    ELSE [year |-> y, month |-> m, dom |-> d + 1]

DateOf(t) == DateFrom(2023, 1, t.day)

MinusDays(t, n) == [t EXCEPT !.day = t.day - n]

MinusHours(t, n) ==
    IF t.hour >= n THEN [t EXCEPT !.hour = t.hour - n]
    ELSE [t EXCEPT !.day = t.day - 1, !.hour = t.hour + 24 - n]

PlusMinutes(t, n) ==
    LET total == (t.hour * 60) + t.minute + n
    IN  [day    |-> t.day + (total \div 1440),
         hour   |-> (total % 1440) \div 60,
         minute |-> total % 60]

(* strftime('%Y-%m-%d') *)
StrftimeDate(t) ==
    LET d == DateOf(t)
    IN  ZeroPad(Str(d.year), 4) \o <<"-">> \o ZeroPad(Str(d.month), 2)
        \o <<"-">> \o ZeroPad(Str(d.dom), 2)

(* Variant: the hour is formatted with its minutes, '%Y-%m-%d %H:%M' *)
StrftimeDateHourWithMinutes(t) ==
    StrftimeDate(t) \o <<" ">> \o ZeroPad(Str(t.hour), 2) \o <<":">> \o ZeroPad(Str(t.minute), 2)

(* strftime('%Y-%m-%d %H:00') *)
StrftimeDateHour(t) == StrftimeDate(t) \o <<" ">> \o ZeroPad(Str(t.hour), 2) \o <<":00">>

----------------------------------------------------------------------------
(* Start-up: the module-level statements of main.py                        *)

(* os.getenv gives None or a string; `not x` holds of None and of ""       *)
EnvValues == {None, [str |-> ""], [str |-> "key"]}

Truthy(v) == v # None /\ v.str # ""

(* Where the clock may stand when the process starts:                      *)
(* 2024-03-01 00:58, day 425 after 2023-01-01                              *)
StartTimes == {[day |-> 425, hour |-> 0, minute |-> 58]}

(* What Agent(...), Gemini(...) or FirecrawlTools(...) may raise at line 34 *)
PrimaryFailures ==
    { Exc("ImportError", <<"firecrawl-py not installed">>),
      Exc("KeyboardInterrupt", <<>>) }

(* What Agent(...) or Gemini(...) may raise at line 79 *)
FallbackFailures ==
    { Exc("ValueError", <<"invalid api key">>),
      Exc("KeyboardInterrupt", <<>>) }

PrimaryAgent ==
    [site        |-> "Primary",
     model       |-> "gemini-1.5-flash",
     tools       |-> <<"FirecrawlTools">>,
     description |-> "You are NewsletterResearch-X, an elite research assistant"]

FallbackAgent ==
    [site        |-> "Fallback",
     model       |-> "gemini-1.5-flash",
     tools       |-> <<>>,
     description |-> "Newsletter research assistant"]

Init ==
    /\ FIRECRAWL_API_KEY \in EnvValues
    /\ GOOGLE_API_KEY \in EnvValues
    /\ pc = "validate_keys"
    /\ uncaught = None
    /\ stdout = <<>>
    /\ newsletter_agent = None
    /\ constructed = [Primary |-> 0, Fallback |-> 0]
    /\ now \in StartTimes
    /\ ticks = 0
    /\ call = None
    /\ today = None
    /\ enhanced_topic = <<>>
    /\ runs = 0
    /\ ranAgent = None
    /\ runOutcome = None
    /\ result = None
    /\ logged = <<>>
    /\ prevSent = None

(* An exception nothing catches ends the process *)
Exit(exc) ==
    /\ pc' = "exited"
    /\ uncaught' = exc

MissingKeyError(name) ==
    Exc("ValueError",
        <<name, " environment variable is not set. Please set it in your .env file or environment.">>)

(* Variant: only the first credential is validated *)
ValidateKeysFirecrawlOnly ==
    /\ pc = "validate_keys"
    /\ IF ~Truthy(FIRECRAWL_API_KEY)
         THEN Exit(MissingKeyError("FIRECRAWL_API_KEY"))
         ELSE /\ pc' = "makedirs"
              /\ uncaught' = uncaught
    /\ UNCHANGED <<FIRECRAWL_API_KEY, GOOGLE_API_KEY, stdout, newsletter_agent,
                   constructed, now, ticks>>
    /\ UNCHANGED callVars

(* lines 24-27 *)
ValidateKeys ==
    /\ pc = "validate_keys"
    /\ IF ~Truthy(FIRECRAWL_API_KEY)
         THEN Exit(MissingKeyError("FIRECRAWL_API_KEY"))
       ELSE IF ~Truthy(GOOGLE_API_KEY)
         THEN Exit(MissingKeyError("GOOGLE_API_KEY"))
       ELSE /\ pc' = "makedirs"
            /\ uncaught' = uncaught
    /\ UNCHANGED <<FIRECRAWL_API_KEY, GOOGLE_API_KEY, stdout, newsletter_agent,
                   constructed, now, ticks>>
    /\ UNCHANGED callVars

(* line 30: os.makedirs("tmp", exist_ok=True) succeeds or raises OSError *)
MakeDirs ==
    /\ pc = "makedirs"
    /\ \/ pc' = "try_primary" /\ uncaught' = uncaught
       \/ Exit(Exc("PermissionError", <<"[Errno 13] Permission denied: 'tmp'">>))
    /\ UNCHANGED <<FIRECRAWL_API_KEY, GOOGLE_API_KEY, stdout, newsletter_agent,
                   constructed, now, ticks>>
    /\ UNCHANGED callVars

(* lines 33-76: the construction with tools *)
TryPrimary ==
    /\ pc = "try_primary"
    /\ constructed' = [constructed EXCEPT !.Primary = @ + 1]
    /\ \/ /\ newsletter_agent' = PrimaryAgent
          /\ stdout' = Append(stdout, <<"Agent with FirecrawlTools created successfully!">>)
          /\ pc' = "idle"
          /\ uncaught' = uncaught
       \/ \E e \in PrimaryFailures :
            IF IsInstance(e, "Exception")
              THEN /\ stdout' = Append(stdout, <<"Error creating agent with tools: ">> \o e.msg)
                   /\ pc' = "try_fallback"
                   /\ UNCHANGED <<newsletter_agent, uncaught>>
              ELSE /\ Exit(e)
                   /\ UNCHANGED <<newsletter_agent, stdout>>
    /\ UNCHANGED <<FIRECRAWL_API_KEY, GOOGLE_API_KEY, now, ticks>>
    /\ UNCHANGED callVars

(* Variant: the except branch repeats the construction with tools *)
TryFallbackRebuildsPrimary ==
    /\ pc = "try_fallback"
    /\ constructed' = [constructed EXCEPT !.Fallback = @ + 1]
    /\ \/ /\ newsletter_agent' = PrimaryAgent
          /\ stdout' = Append(stdout, <<"Basic agent created successfully!">>)
          /\ pc' = "idle"
          /\ uncaught' = uncaught
       \/ \E e2 \in FallbackFailures :
            IF IsInstance(e2, "Exception")
              THEN /\ stdout' = Append(stdout, <<"Error creating basic agent: ">> \o e2.msg)
                   /\ newsletter_agent' = None
                   /\ pc' = "idle"
                   /\ uncaught' = uncaught
              ELSE /\ Exit(e2)
                   /\ UNCHANGED <<newsletter_agent, stdout>>
    /\ UNCHANGED <<FIRECRAWL_API_KEY, GOOGLE_API_KEY, now, ticks>>
    /\ UNCHANGED callVars

(* lines 77-86: the construction without tools *)
TryFallback ==
    /\ pc = "try_fallback"
    /\ constructed' = [constructed EXCEPT !.Fallback = @ + 1]
    /\ \/ /\ newsletter_agent' = FallbackAgent
          /\ stdout' = Append(stdout, <<"Basic agent created successfully!">>)
          /\ pc' = "idle"
          /\ uncaught' = uncaught
       \/ \E e2 \in FallbackFailures :
            IF IsInstance(e2, "Exception")
              THEN /\ stdout' = Append(stdout, <<"Error creating basic agent: ">> \o e2.msg)
                   /\ newsletter_agent' = None
                   /\ pc' = "idle"
                   /\ uncaught' = uncaught
              ELSE /\ Exit(e2)
                   /\ UNCHANGED <<newsletter_agent, stdout>>
    /\ UNCHANGED <<FIRECRAWL_API_KEY, GOOGLE_API_KEY, now, ticks>>
    /\ UNCHANGED callVars

----------------------------------------------------------------------------
(* NewsletterGenerator(topic, search_limit, time_range)                    *)

DefaultSearchLimit == 5

Topics == {"Latest developments in AI", "climate"}
SearchLimits == {DefaultSearchLimit, MaxLimit}
KnownTimeRanges == {"qdr:h", "qdr:d", "qdr:w", "qdr:m", "qdr:y"}
TimeRanges == KnownTimeRanges \cup {"qdr:x"}

(* Variant: the response does not interpolate the topic *)
NoAgentResponseWithoutTopic(topic) ==
    [content  |-> <<"# Newsletter Generator Error\n\nUnable to initialize the newsletter agent. Please check your API keys and try again.\n\nRequested topic: ">>,
     messages |-> <<>>]

(* lines 107-110: the response when no agent could be built *)
NoAgentResponse(topic) ==
    [content  |-> <<"# Newsletter Generator Error\n\nUnable to initialize the newsletter agent. Please check your API keys and try again.\n\nRequested topic: ",
                    topic>>,
     messages |-> <<>>]

(* lines 113-119: the first value of time_context, overwritten at 129 *)
TimeContextBasic(time_range) ==
    CASE time_range = "qdr:h" -> <<"past hour">>
      [] time_range = "qdr:d" -> <<"past 24 hours">>
      [] time_range = "qdr:w" -> <<"past week">>
      [] time_range = "qdr:m" -> <<"past month">>
      [] time_range = "qdr:y" -> <<"past year">>
      [] OTHER                -> <<"recent">>

(* Variant: the table has no entry for "qdr:m" *)
TimeContextNoMonth(t, time_range) ==
    CASE time_range = "qdr:h" ->
           <<"past hour", " (since ">> \o StrftimeDateHour(MinusHours(t, 1)) \o <<")">>
      [] time_range = "qdr:d" ->
           <<"past 24 hours", " (since ">> \o StrftimeDate(MinusDays(t, 1)) \o <<")">>
      [] time_range = "qdr:w" ->
           <<"past week", " (since ">> \o StrftimeDate(MinusDays(t, 7)) \o <<")">>
      [] time_range = "qdr:y" ->
           <<"past year", " (since ">> \o StrftimeDate(MinusDays(t, 365)) \o <<")">>
      [] OTHER -> <<"recent">>

(* lines 125-135: the value of time_context the prompt uses *)
TimeContext(t, time_range) ==
    CASE time_range = "qdr:h" ->
           <<"past hour", " (since ">> \o StrftimeDateHour(MinusHours(t, 1)) \o <<")">>
      [] time_range = "qdr:d" ->
           <<"past 24 hours", " (since ">> \o StrftimeDate(MinusDays(t, 1)) \o <<")">>
      [] time_range = "qdr:w" ->
           <<"past week", " (since ">> \o StrftimeDate(MinusDays(t, 7)) \o <<")">>
      [] time_range = "qdr:m" ->
           <<"past month", " (since ">> \o StrftimeDate(MinusDays(t, 30)) \o <<")">>
      [] time_range = "qdr:y" ->
           <<"past year", " (since ">> \o StrftimeDate(MinusDays(t, 365)) \o <<")">>
      [] OTHER -> <<"recent">>

(* Variant: the limit is clamped to 10 before it is formatted *)
SearchInstructionClamped(heading, topic, keywords, time_range, search_limit) ==
    <<heading, "firecrawl_search(\n", "query=\"", topic, keywords, "\",\n",
      "tbs=\"", time_range, "\",\n", "limit=">>
    \o Str(IF search_limit > 10 THEN 10 ELSE search_limit)
    \o <<",\n", "formats=[\"markdown\", \"links\"]\n)\n">>

(* One firecrawl_search(...) instruction of the prompt *)
SearchInstruction(heading, topic, keywords, time_range, search_limit) ==
    <<heading, "firecrawl_search(\n", "query=\"", topic, keywords, "\",\n",
      "tbs=\"", time_range, "\",\n", "limit=">>
    \o Str(search_limit)
    \o <<",\n", "formats=[\"markdown\", \"links\"]\n)\n">>

(* lines 137-176: the f-string *)
EnhancedTopic(topic, search_limit, time_range, time_context, t) ==
    <<"\nSEARCH TASK: Find recent articles about ", topic,
      "\n\nYou MUST use the firecrawl_search function with these exact parameters:\n\n">>
    \o SearchInstruction("1. FIRST SEARCH (Breaking news):\n", topic,
                         " breaking news", time_range, search_limit)
    \o SearchInstruction("2. SECOND SEARCH (Latest developments):\n", topic,
                         " latest news 2024", time_range, search_limit)
    \o SearchInstruction("3. THIRD SEARCH (Recent announcements):\n", topic,
                         " recent developments", time_range, search_limit)
    \o <<"TIME FILTER: ", time_range, " = ">> \o time_context
    \o <<"\nTODAY'S DATE: ">> \o StrftimeDate(t)
    \o <<"\n\nREQUIREMENTS:\n- Only include articles from the specified timeframe: ">>
    \o time_context
    \o <<"\n- Each article MUST include: [Article Title](full-url)\n- Include publication date when available\n- If no recent articles found, explicitly state the search timeframe used\n\nCreate a newsletter with the search results, ensuring all articles are from ">>
    \o time_context
    \o <<".\n">>

(* What the agent's run may return, and what it may raise *)
RunResponses == {[content |-> <<"# AI Weekly">>], [content |-> <<>>]}

RunFailures ==
    { Exc("UnicodeDecodeError", <<"invalid start byte">>),
      Exc("ConnectionError", <<"connection reset">>),
      Exc("KeyboardInterrupt", <<>>) }

Return(value) == [kind |-> "return", value |-> value]
Raise(exc) == [kind |-> "raise", exc |-> exc]

(* What the call before left behind, once a new call starts *)
Sent == IF runs > 0
          THEN [call |-> call, today |-> today, prompt |-> enhanced_topic]
          ELSE prevSent

(* Variant: a call that finds no agent builds the basic agent and runs it *)
NewsletterGeneratorRebuilds(topic, search_limit, time_range) ==
    /\ pc = "idle"
    /\ call' = [topic |-> topic, search_limit |-> search_limit, time_range |-> time_range]
    /\ prevSent' = Sent
    /\ runOutcome' = None
    /\ logged' = <<>>
    /\ newsletter_agent' = IF newsletter_agent = None THEN FallbackAgent ELSE newsletter_agent
    /\ today' = now
    /\ enhanced_topic' = EnhancedTopic(topic, search_limit, time_range,
                                       TimeContext(now, time_range), now)
    /\ runs' = 1
    /\ ranAgent' = newsletter_agent'
    /\ result' = None
    /\ pc' = "in_run"
    /\ UNCHANGED <<FIRECRAWL_API_KEY, GOOGLE_API_KEY, uncaught, stdout, constructed>>
    /\ UNCHANGED <<now, ticks>>

(* lines 104-178: from entry to the invocation of run *)
NewsletterGenerator(topic, search_limit, time_range) ==
    /\ pc = "idle"
    /\ call' = [topic |-> topic, search_limit |-> search_limit, time_range |-> time_range]
    /\ prevSent' = Sent
    /\ runOutcome' = None
    /\ logged' = <<>>
    /\ IF newsletter_agent = None
         THEN /\ result' = Return(NoAgentResponse(topic))
              /\ today' = None
              /\ enhanced_topic' = <<>>
              /\ runs' = 0
              /\ ranAgent' = None
              /\ pc' = "idle"
         ELSE /\ today' = now
              /\ enhanced_topic' = EnhancedTopic(topic, search_limit, time_range,
                                                 TimeContext(now, time_range), now)
              /\ runs' = 1
              /\ ranAgent' = newsletter_agent
              /\ result' = None
              /\ pc' = "in_run"
    /\ UNCHANGED startupVars
    /\ UNCHANGED <<now, ticks>>

(* Variant: only the content of the response is handed back *)
OnReturnContentOnly(response) ==
    /\ logged' = Append(logged, [level |-> "info", text |-> <<"Newsletter generated successfully">>])
    /\ result' = Return(response.content)

(* lines 178-180: run returned *)
OnReturn(response) ==
    /\ logged' = Append(logged, [level |-> "info", text |-> <<"Newsletter generated successfully">>])
    /\ result' = Return(response)

(* Variant: RuntimeError is raised without `from e` *)
OnRaiseDropsCause(exc) ==
    IF IsInstance(exc, "ValueError")
      THEN /\ logged' = Append(logged, [level |-> "error",
                                        text |-> <<"Configuration error: ">> \o exc.msg])
           /\ result' = Raise(exc)
    ELSE IF IsInstance(exc, "Exception")
      THEN /\ logged' = Append(logged, [level |-> "error",
                                        text |-> <<"Unexpected error in newsletter generation: ">> \o exc.msg])
           /\ result' = Raise(Exc("RuntimeError", <<"Newsletter generation failed: ">> \o exc.msg))
    ELSE /\ logged' = logged
         /\ result' = Raise(exc)

(* lines 181-186: run raised *)
OnRaise(exc) ==
    IF IsInstance(exc, "ValueError")
      THEN /\ logged' = Append(logged, [level |-> "error",
                                        text |-> <<"Configuration error: ">> \o exc.msg])
           /\ result' = Raise(exc)
    ELSE IF IsInstance(exc, "Exception")
      THEN /\ logged' = Append(logged, [level |-> "error",
                                        text |-> <<"Unexpected error in newsletter generation: ">> \o exc.msg])
           /\ result' = Raise([type  |-> "RuntimeError",
                               msg   |-> <<"Newsletter generation failed: ">> \o exc.msg,
                               cause |-> exc])
    ELSE /\ logged' = logged
         /\ result' = Raise(exc)

RunReturns ==
    /\ pc = "in_run"
    /\ \E response \in RunResponses :
         /\ runOutcome' = [kind |-> "returned", value |-> response]
         /\ OnReturn(response)
    /\ pc' = "idle"
    /\ UNCHANGED startupVars
    /\ UNCHANGED <<now, ticks, call, today, enhanced_topic, runs, ranAgent, prevSent>>

(* Variant: a failed run is tried once more *)
RunRaisesRetries ==
    /\ pc = "in_run"
    /\ \E exc \in RunFailures :
         /\ runOutcome' = [kind |-> "raised", exc |-> exc]
         /\ IF runs < 2
              THEN /\ runs' = runs + 1
                   /\ pc' = "in_run"
                   /\ UNCHANGED <<result, logged>>
              ELSE /\ OnRaise(exc)
                   /\ runs' = runs
                   /\ pc' = "idle"
    /\ UNCHANGED startupVars
    /\ UNCHANGED <<now, ticks, call, today, enhanced_topic, ranAgent, prevSent>>

RunRaises ==
    /\ pc = "in_run"
    /\ \E exc \in RunFailures :
         /\ runOutcome' = [kind |-> "raised", exc |-> exc]
         /\ OnRaise(exc)
    /\ pc' = "idle"
    /\ UNCHANGED startupVars
    /\ UNCHANGED <<now, ticks, call, today, enhanced_topic, runs, ranAgent, prevSent>>

(* The local clock advances between calls: by a minute or by a day *)
TickMinutes == {1, 1440}

Tick ==
    /\ pc = "idle"
    /\ ticks < MaxTicks
    /\ ticks' = ticks + 1
    /\ \E d \in TickMinutes : now' = PlusMinutes(now, d)
    /\ pc' = pc
    /\ UNCHANGED startupVars
    /\ UNCHANGED callVars

Next ==
    \/ ValidateKeys
    \/ MakeDirs
    \/ TryPrimary
    \/ TryFallback
    \/ \E topic \in Topics, search_limit \in SearchLimits, time_range \in TimeRanges :
         NewsletterGenerator(topic, search_limit, time_range)
    \/ RunReturns
    \/ RunRaises
    \/ Tick

Spec == Init /\ [][Next]_vars

----------------------------------------------------------------------------
(* Observations the properties below are stated with                       *)

Printed(prefix) == \E i \in 1..Len(stdout) : stdout[i][1] = prefix

PrimaryFailed == Printed("Error creating agent with tools: ")
FallbackBuilt == Printed("Basic agent created successfully!")
FallbackFailed == Printed("Error creating basic agent: ")

(* str(e) of the exception a start-up line reports *)
CauseOf(prefix) == Tail(stdout[CHOOSE i \in 1..Len(stdout) : stdout[i][1] = prefix])

Mentions(text, cause) == \A i \in 1..Len(cause) : Contains(text, cause[i])

MissingCredentials ==
    (IF Truthy(FIRECRAWL_API_KEY) THEN {} ELSE {"FIRECRAWL_API_KEY"})
    \cup (IF Truthy(GOOGLE_API_KEY) THEN {} ELSE {"GOOGLE_API_KEY"})

CallDone == pc = "idle" /\ call # None /\ result # None
RunReturned == CallDone /\ runOutcome # None /\ runOutcome.kind = "returned"
RunRaised == CallDone /\ runOutcome # None /\ runOutcome.kind = "raised"
PromptSent == runs > 0 /\ call # None

IndexOf(text, fragment) == CHOOSE i \in 1..Len(text) : text[i] = fragment
Positions(text, fragment) == {i \in 1..Len(text) : text[i] = fragment}

(* The fragments between `fragment` at position i and the next `stop` *)
FieldAt(text, i, stop) ==
    LET j == CHOOSE k \in (i + 1)..Len(text) :
                 /\ text[k] = stop
                 /\ \A m \in (i + 1)..(k - 1) : text[m] # stop
    IN  SubSeq(text, i + 1, j - 1)

(* The recency phrase of the prompt: what follows "TIME FILTER: <code> = " *)
PhraseInPrompt(text) ==
    SubSeq(text, IndexOf(text, "TIME FILTER: ") + 3, IndexOf(text, "\nTODAY'S DATE: ") - 1)

----------------------------------------------------------------------------
\* C1: when the construction with tools failed and the construction without
\* tools succeeded, a call whose run returns normally gives its caller the
\* value run returned, and the agent that was run is the one built at the
\* fallback site, which differs from the primary agent.
C1_FallbackAgentRuns ==
    (PrimaryFailed /\ FallbackBuilt /\ RunReturned) =>
        /\ result = Return(runOutcome.value)
        /\ ranAgent.site = "Fallback"
        /\ ranAgent.tools = <<>>
        /\ ranAgent # PrimaryAgent

C1_Witness == PrimaryFailed /\ FallbackBuilt /\ RunReturned

\* C2 (as claimed): when both constructions failed, every call ends in a
\* failure of kind AgentConstructionError whose message names both causes.
C2_BothCausesReported ==
    (PrimaryFailed /\ FallbackFailed /\ CallDone) =>
        /\ result.kind = "raise"
        /\ result.exc.type = "AgentConstructionError"
        /\ Mentions(result.exc.msg, CauseOf("Error creating agent with tools: "))
        /\ Mentions(result.exc.msg, CauseOf("Error creating basic agent: "))

\* C2 (amended): when both constructions failed, every call returns normally
\* a payload whose content names the requested topic and whose message list
\* is empty; run is not invoked and the payload names neither cause, which
\* only the start-up output holds.
C2_NoAgentPayload ==
    (PrimaryFailed /\ FallbackFailed /\ CallDone) =>
        /\ result.kind = "return"
        /\ result.value.messages = <<>>
        /\ Contains(result.value.content, call.topic)
        /\ ~Mentions(result.value.content, CauseOf("Error creating agent with tools: "))
        /\ ~Mentions(result.value.content, CauseOf("Error creating basic agent: "))
        /\ runs = 0

C2_Witness ==
    PrimaryFailed /\ FallbackFailed /\ CallDone /\ call.topic = "climate"

\* C3 (as claimed): whatever run raises, the call ends with a RuntimeError
\* (the GenerationError) whose cause is the exception run raised.
C3_EveryExceptionWrapped ==
    RunRaised =>
        /\ result.kind = "raise"
        /\ result.exc.type = "RuntimeError"
        /\ result.exc.cause = runOutcome.exc

\* C3 (amended): an exception of run that is an Exception but not a
\* ValueError ends the call with a RuntimeError whose cause is that
\* exception and whose message carries its text; a ValueError (or a
\* subclass) and an exception outside Exception reach the caller unchanged.
C3_WrappedUnlessValueError ==
    RunRaised =>
        /\ result.kind = "raise"
        /\ IF IsInstance(runOutcome.exc, "Exception") /\ ~IsInstance(runOutcome.exc, "ValueError")
             THEN /\ result.exc.type = "RuntimeError"
                  /\ result.exc.cause = runOutcome.exc
                  /\ Mentions(result.exc.msg, runOutcome.exc.msg)
             ELSE result.exc = runOutcome.exc

C3_Witness ==
    RunRaised /\ runOutcome.exc.type = "ConnectionError" /\ result.exc.type = "RuntimeError"

\* C4: a missing credential ends the process in validation with a
\* ValueError naming a credential that is missing, before any construction;
\* whenever a construction was attempted both credentials are present.
C4_CredentialsBeforeConstruction ==
    /\ (constructed.Primary + constructed.Fallback > 0) =>
           (Truthy(FIRECRAWL_API_KEY) /\ Truthy(GOOGLE_API_KEY))
    /\ (pc # "validate_keys" /\ ~(Truthy(FIRECRAWL_API_KEY) /\ Truthy(GOOGLE_API_KEY))) =>
           /\ pc = "exited"
           /\ uncaught.type = "ValueError"
           /\ uncaught.msg[1] \in MissingCredentials
           /\ constructed = [Primary |-> 0, Fallback |-> 0]
           /\ newsletter_agent = None

C4_Witness ==
    /\ pc = "exited"
    /\ Truthy(FIRECRAWL_API_KEY)
    /\ GOOGLE_API_KEY = None
    /\ uncaught.msg[1] = "GOOGLE_API_KEY"

\* C5: the recency phrase of the prompt is, for each of the five known
\* codes, non-empty and not "recent", and for any other code exactly
\* "recent"; no call fails unless run itself raised.
C5_RecencyPhrase ==
    /\ PromptSent =>
         LET phrase == PhraseInPrompt(enhanced_topic)
         IN  IF call.time_range \in KnownTimeRanges
               THEN Len(phrase) > 0 /\ phrase # <<"recent">> /\ phrase[1] # "recent"
               ELSE phrase = <<"recent">>
    /\ (CallDone /\ result.kind = "raise") => (runOutcome # None /\ runOutcome.kind = "raised")

C5_Witness ==
    /\ PromptSent
    /\ call.time_range = "qdr:m"
    /\ prevSent # None
    /\ prevSent.call.time_range = "qdr:x"

\* C6: every search instruction of the prompt carries the caller's limit
\* and the caller's recency token unchanged: there are three instructions,
\* each with tbs equal to time_range and limit reading as search_limit.
C6_SearchParamsUnchanged ==
    PromptSent =>
        /\ Cardinality(Positions(enhanced_topic, "tbs=\"")) = 3
        /\ Cardinality(Positions(enhanced_topic, "limit=")) = 3
        /\ Cardinality(Positions(enhanced_topic, "firecrawl_search(\n")) = 3
        /\ \A i \in Positions(enhanced_topic, "tbs=\"") :
               FieldAt(enhanced_topic, i, "\",\n") = <<call.time_range>>
        /\ \A i \in Positions(enhanced_topic, "limit=") :
               ParseInt(FieldAt(enhanced_topic, i, ",\n")) = call.search_limit

C6_Witness == PromptSent /\ call.search_limit = MaxLimit /\ call.time_range = "qdr:y"

\* C7 (as claimed): two calls with identical arguments send identical
\* prompts, whenever they are made.
C7_PromptDependsOnInputsOnly ==
    (PromptSent /\ prevSent # None /\ prevSent.call = call) =>
        prevSent.prompt = enhanced_topic

\* C7 (amended): two calls with identical arguments whose clock readings
\* agree in date and hour send identical prompts; the prompt depends on the
\* arguments and on the current date and hour, not on the minute.
C7_PromptSameWithinTheHour ==
    (/\ PromptSent /\ prevSent # None /\ prevSent.call = call
     /\ prevSent.today.day = today.day /\ prevSent.today.hour = today.hour) =>
        prevSent.prompt = enhanced_topic

C7_Witness ==
    /\ PromptSent /\ prevSent # None /\ prevSent.call = call
    /\ call.time_range = "qdr:h"
    /\ prevSent.today.day = today.day /\ prevSent.today.hour = today.hour
    /\ prevSent.today.minute # today.minute

\* C8: when run returns normally the caller gets exactly the value run
\* returned, and the prompt run was given contains the topic and the
\* recency phrase of the requested code.
C8_RawResponseAndPrompt ==
    RunReturned =>
        /\ result.kind = "return"
        /\ result.value = runOutcome.value
        /\ Contains(enhanced_topic, call.topic)
        /\ Mentions(enhanced_topic, TimeContextBasic(call.time_range))

C8_Witness ==
    /\ RunReturned
    /\ call.topic = "Latest developments in AI"
    /\ call.time_range = "qdr:w"
    /\ Contains(enhanced_topic, "past week")

\* C9: each construction is attempted at most once and the fallback only
\* after the primary failed; a call invokes run at most once, and never
\* when there is no agent; once start-up is over no step attempts another
\* construction, and the step that ends a run ends the call.
C9_Attempts ==
    /\ constructed.Primary <= 1
    /\ constructed.Fallback <= 1
    /\ (constructed.Fallback = 1) => (constructed.Primary = 1 /\ PrimaryFailed)
    /\ runs <= 1
    /\ (newsletter_agent = None) => (runs = 0 /\ ranAgent = None /\ pc # "in_run")

C9_OneFallbackNoRetry ==
    /\ []C9_Attempts
    /\ [][ /\ (pc \in {"idle", "in_run"}) => (constructed' = constructed)
           /\ (pc = "in_run") => (pc' = "idle" /\ runs' = runs /\ result' # None) ]_vars

C9_Witness ==
    RunRaised /\ constructed.Fallback = 1 /\ runs = 1

\* C10: once start-up is over no step changes newsletter_agent; with no
\* agent every finished call returned the error payload naming its topic
\* with an empty message list.
C10_HandleNeverChanges ==
    /\ [][ (pc \in {"idle", "in_run"}) => (newsletter_agent' = newsletter_agent) ]_vars
    /\ []( (pc = "idle" /\ newsletter_agent = None /\ call # None) =>
             /\ result.kind = "return"
             /\ result.value.messages = <<>>
             /\ result.value.content[Len(result.value.content)] = call.topic
             /\ constructed = [Primary |-> 1, Fallback |-> 1] )

C10_Witness ==
    /\ RunRaised
    /\ prevSent # None
    /\ newsletter_agent = FallbackAgent

====
